---------------------------- MODULE Spec2Model ----------------------------
(***************************************************************************)
(* Model of the Trulia scraper actor (src/src/main.js): input              *)
(* normalisation, the two extraction strategies, the page-counter          *)
(* pagination planner, and the CheerioCrawler request handler with its     *)
(* shared state (saved, seenUrls), the request queue with retries, and     *)
(* the dataset.                                                            *)
(*                                                                         *)
(* JavaScript values are records [t, v]: t is the type tag and v the       *)
(* value as a sequence of string tokens.  A URL string is tokenised at     *)
(* its slashes: "https://www.trulia.com/NY/2_p/" is                        *)
(* <<"https://www.trulia.com", "/", "NY", "/", "2_p", "/">>, so that two   *)
(* JavaScript strings are equal exactly when their token sequences are.    *)
(***************************************************************************)
EXTENDS Integers, Sequences, FiniteSets, TLC

\* ------------------------------------------------------------------------
\* Bounds of the model (not program constants)
\* ------------------------------------------------------------------------
MaxResultsInput == 3
MaxPagesInput == 2

\* ------------------------------------------------------------------------
\* JavaScript values
\* ------------------------------------------------------------------------
Null == [t |-> "null", v |-> <<>>]
Undef == [t |-> "undef", v |-> <<>>]
Str(s) == [t |-> "str", v |-> s]
Num(s) == [t |-> "num", v |-> s]
Obj(s) == [t |-> "obj", v |-> s]
Arr(s) == [t |-> "arr", v |-> s]

\* ToBoolean: null, undefined, "", 0 and NaN are falsy
Truthy(x) ==
    /\ x.t \notin {"null", "undef", "nan"}
    /\ ~(x.t = "str" /\ x.v = <<>>)
    /\ ~(x.t = "num" /\ x.v = <<"0">>)

\* a || b
Or(a, b) == IF Truthy(a) THEN a ELSE b

\* x?.toString()
ToStringOpt(x) == IF x.t \in {"null", "undef"} THEN Undef ELSE Str(x.v)

\* n.toLocaleString() on the numbers of the model (en-US grouping)
toLocaleString(v) ==
    CASE v = <<"689000">> -> <<"689,000">>
      [] v = <<"1250000">> -> <<"1,250,000">>
      [] OTHER -> v

\* s.replace(re, '') where re matches the tokens of `drop'
StripTokens(v, drop) == SelectSeq(v, LAMBDA tok : tok \notin drop)

BedsTokens == {" Beds", " Bed", " beds", " bed"}
BathsTokens == {" Baths", " Bath", " baths", " bath"}
SqftTokens == {" sqft", " SQFT"}
CommaTokens == {","}

\* s.includes(sub) on token sequences
Includes(v, sub) ==
    \E i \in 1..(Len(v) - Len(sub) + 1) : SubSeq(v, i, i + Len(sub) - 1) = sub

\* ------------------------------------------------------------------------
\* Input normalisation (main.js 12-23)
\* ------------------------------------------------------------------------
\* Raw numeric inputs: undefined, null, a non-numeric string, or an integer
RawUndef == [t |-> "undef", n |-> 0]
RawNull == [t |-> "null", n |-> 0]
RawNaN == [t |-> "nan", n |-> 0]
RawNum(k) == [t |-> "num", n |-> k]

DEFAULT_RESULTS_WANTED == 20
DEFAULT_MAX_PAGES == 5

Max(a, b) == IF a >= b THEN a ELSE b

\* results_wanted: RESULTS_WANTED_RAW = 20, then
\* Number.isFinite(+raw) ? Math.max(1, +raw) : 20
NormResultsWanted(raw) ==
    LET r == IF raw.t = "undef" THEN RawNum(DEFAULT_RESULTS_WANTED) ELSE raw
    IN  CASE r.t = "num" -> Max(1, r.n)
          [] r.t = "null" -> Max(1, 0)
          [] OTHER -> DEFAULT_RESULTS_WANTED

\* max_pages: MAX_PAGES_RAW = 5, then
\* Number.isFinite(+raw) ? Math.max(1, +raw) : 5
NormMaxPages(raw) ==
    LET r == IF raw.t = "undef" THEN RawNum(DEFAULT_MAX_PAGES) ELSE raw
    IN  CASE r.t = "num" -> Max(1, r.n)
          [] r.t = "null" -> Max(1, 0)
          [] OTHER -> DEFAULT_MAX_PAGES

\* ------------------------------------------------------------------------
\* URLs
\* ------------------------------------------------------------------------
Origin == "https://www.trulia.com"

\* `${n}_p`
PageSeg(n) == ToString(n) \o "_p"

\* segments matched by \d+_p
MaxPageSeg == 9
PageSegs == {PageSeg(n) : n \in 0..MaxPageSeg}

\* loc.toUpperCase().replace(/\s+/g, '_'), then encodeURIComponent
UpperToken(tok) ==
    CASE tok = "ny" -> "NY"
      [] tok = "los" -> "LOS"
      [] tok = "angeles" -> "ANGELES"
      [] OTHER -> tok

RECURSIVE JoinLoc(_)
JoinLoc(v) ==
    IF v = <<>> THEN ""
    ELSE (IF Head(v) = " " THEN "_" ELSE UpperToken(Head(v))) \o JoinLoc(Tail(v))

\* the listing type ignored: the buy template for every type
buildStartUrl_AlwaysBuy(loc, type) ==
    Str(<<Origin, "/", JoinLoc(loc.v), "/">>)

\* main.js 37-44
buildStartUrl(loc, type) ==
    LET locPath == JoinLoc(loc.v)
    IN  IF type = Str(<<"rent">>)
        THEN Str(<<Origin, "/", "for_rent", "/", locPath, "/">>)
        ELSE Str(<<Origin, "/", locPath, "/">>)

DEFAULT_LOCATION == Str(<<"NY">>)
DEFAULT_LISTING_TYPE == Str(<<"buy">>)

\* const initialUrl = start_url || buildStartUrl(location, listing_type)
InitialUrl(start_url, location, listing_type) ==
    LET loc == IF location.t = "undef" THEN DEFAULT_LOCATION ELSE location
        typ == IF listing_type.t = "undef" THEN DEFAULT_LISTING_TYPE ELSE listing_type
    IN  Or(start_url, buildStartUrl(loc, typ))

\* new URL(currentUrl) succeeds on an absolute http(s) URL
ParsesAsUrl(u) == u.t = "str" /\ Len(u.v) >= 1 /\ u.v[1] = Origin

\* position of the "?" that starts url.search, or Len + 1
SearchAt(v) ==
    IF \E i \in 1..Len(v) : v[i] = "?"
    THEN CHOOSE i \in 1..Len(v) : v[i] = "?" /\ \A j \in 1..(i-1) : v[j] # "?"
    ELSE Len(v) + 1

\* url.pathname ("/" when the URL has no path)
Pathname(v) ==
    IF SearchAt(v) <= 2 THEN <<"/">> ELSE SubSeq(v, 2, SearchAt(v) - 1)

\* url.search
Search(v) == SubSeq(v, SearchAt(v), Len(v))

\* the regular expression without the optional trailing slash
StripPageSeg_SlashRequired(path) ==
    LET n == Len(path)
    IN  IF n >= 3 /\ path[n] = "/" /\ path[n-1] \in PageSegs /\ path[n-2] = "/"
        THEN SubSeq(path, 1, n - 2)
        ELSE path

\* url.pathname.replace(/\/\d+_p\/?$/, '/')
StripPageSeg(path) ==
    LET n == Len(path)
    IN  IF n >= 3 /\ path[n] = "/" /\ path[n-1] \in PageSegs /\ path[n-2] = "/"
        THEN SubSeq(path, 1, n - 2)
        ELSE IF n >= 2 /\ path[n] \in PageSegs /\ path[n-1] = "/"
        THEN SubSeq(path, 1, n - 1)
        ELSE path

buildNextPageUrl(currentUrl, currentPage) ==
    IF ~ParsesAsUrl(currentUrl) THEN Null
    ELSE LET nextPage == currentPage + 1
             stripped == StripPageSeg(Pathname(currentUrl.v))
             slashed == IF stripped[Len(stripped)] # "/"
                        THEN Append(stripped, "/") ELSE stripped
         IN  Str(<<Origin>> \o slashed \o <<PageSeg(nextPage), "/">>
                 \o Search(currentUrl.v))

\* ------------------------------------------------------------------------
\* Page content
\* ------------------------------------------------------------------------
\* A raw home of props.searchData.homes, flattened to the leaves that the
\* record mapping reads; isNull marks a null array element.
EmptyHome ==
    [isNull |-> FALSE,
     formattedPrice |-> Undef, priceNum |-> Undef,
     bedsFormatted |-> Undef, bedsValue |-> Undef,
     bathsFormatted |-> Undef, bathsValue |-> Undef,
     floorFormatted |-> Undef, floorValue |-> Undef,
     lotFormatted |-> Undef,
     streetAddress |-> Undef, formattedStreetLine |-> Undef,
     city |-> Undef, stateCode |-> Undef, zipCode |-> Undef,
     fullLocation |-> Undef, latitude |-> Undef, longitude |-> Undef,
     propertyTypeValue |-> Undef, propertyTypeFormatted |-> Undef,
     brokerName |-> Undef, listingAgent |-> Undef,
     description |-> Undef,
     heroImage |-> Undef, firstPhoto |-> Undef,
     url |-> Undef]

\* x.replace(...) / x.startsWith(...) on a value that is present but not a
\* string raises a TypeError
ThrowsOnStringMethod(x) == x.t \notin {"null", "undef", "str"}

\* the mapping callback of homes.map raises a TypeError
HomeThrows(home) ==
    \/ home.isNull
    \/ ThrowsOnStringMethod(home.bedsFormatted)
    \/ ThrowsOnStringMethod(home.bathsFormatted)
    \/ ThrowsOnStringMethod(home.floorFormatted)
    \/ (Truthy(home.url) /\ home.url.t # "str")

\* x?.replace(re, '')
ReplaceOpt(x, drop) ==
    IF x.t \in {"null", "undef"} THEN Undef ELSE Str(StripTokens(x.v, drop))

\* `https://www.trulia.com${home.url.startsWith('/') ? '' : '/'}${home.url}`
AbsoluteUrl(u) ==
    IF Head(u.v) = "/" THEN Str(<<Origin>> \o u.v)
    ELSE Str(<<Origin, "/">> \o u.v)

\* The object literal of homes.map(home => ({...}))  (main.js 86-125)
NextDataRecord(home) ==
    [price |-> Or(Or(home.formattedPrice,
                     IF Truthy(home.priceNum)
                     THEN Str(<<"$">> \o toLocaleString(home.priceNum.v))
                     ELSE Null), Null),
     beds |-> Or(Or(ReplaceOpt(home.bedsFormatted, BedsTokens),
                    ToStringOpt(home.bedsValue)), Null),
     baths |-> Or(Or(ReplaceOpt(home.bathsFormatted, BathsTokens),
                     ToStringOpt(home.bathsValue)), Null),
     sqft |-> Or(Or(ReplaceOpt(ReplaceOpt(home.floorFormatted, SqftTokens), CommaTokens),
                    ToStringOpt(home.floorValue)), Null),
     lot_size |-> Or(home.lotFormatted, Null),
     address |-> Or(Or(home.streetAddress, home.formattedStreetLine), Null),
     city |-> Or(home.city, Null),
     state |-> Or(home.stateCode, Null),
     zip_code |-> Or(home.zipCode, Null),
     full_address |-> Or(home.fullLocation, Null),
     latitude |-> Or(home.latitude, Null),
     longitude |-> Or(home.longitude, Null),
     property_type |-> Or(Or(home.propertyTypeValue, home.propertyTypeFormatted), Null),
     listing_by |-> Or(Or(home.brokerName, home.listingAgent), Null),
     description |-> Or(home.description, Null),
     image_url |-> Or(Or(home.heroImage, home.firstPhoto), Null),
     url |-> IF Truthy(home.url) THEN AbsoluteUrl(home.url) ELSE Null]

\* The embedded __NEXT_DATA__ script of a page:
\*   script     "absent" | "malformed" | "json"
\*   searchData "none" | "props" | "pageProps"  (where searchData is found)
\*   homesKind  "none" | "notArray" | "array"
\*   homes      the array (a sequence of raw homes)
NoScript == [script |-> "absent", searchData |-> "none", homesKind |-> "none", homes |-> <<>>]
BadScript == [script |-> "malformed", searchData |-> "none", homesKind |-> "none", homes |-> <<>>]
NoSearchData == [script |-> "json", searchData |-> "none", homesKind |-> "none", homes |-> <<>>]
NoHomes == [script |-> "json", searchData |-> "props", homesKind |-> "none", homes |-> <<>>]
HomesNotArray == [script |-> "json", searchData |-> "pageProps", homesKind |-> "notArray", homes |-> <<>>]
HomesAt(where, hs) == [script |-> "json", searchData |-> where, homesKind |-> "array", homes |-> hs]

\* extractFromNextData($): a sequence of records, or Null  (main.js 60-130)
extractFromNextData(page) ==
    LET nd == page.nextData
    IN  IF nd.script = "absent" THEN Null
        ELSE IF nd.script = "malformed" THEN Null
        ELSE IF nd.searchData = "none" THEN Null
        ELSE IF nd.homesKind # "array" THEN Null
        ELSE IF \E i \in 1..Len(nd.homes) : HomeThrows(nd.homes[i]) THEN Null
        ELSE Arr([i \in 1..Len(nd.homes) |-> NextDataRecord(nd.homes[i])])

\* A JSON-LD item, flattened to the leaves the mapping reads; type is the
\* value of '@type' (a string, an array of strings, or undefined).
EmptyItem ==
    [isNull |-> FALSE, type |-> Undef,
     offersPrice |-> Undef, price |-> Undef,
     streetAddress |-> Undef, name |-> Undef,
     addressLocality |-> Undef, addressRegion |-> Undef, postalCode |-> Undef,
     url |-> Undef, image |-> Undef]

\* item['@type'] === 'RealEstateListing' || item['@type'] === 'Product' ||
\* item['@type']?.includes?.('RealEstateListing')
RecognizedType(item) ==
    \/ item.type = Str(<<"RealEstateListing">>)
    \/ item.type = Str(<<"Product">>)
    \/ (item.type.t = "str" /\ Includes(item.type.v, <<"RealEstateListing">>))
    \/ (item.type.t = "arr" /\ \E i \in 1..Len(item.type.v) :
                                   item.type.v[i] = "RealEstateListing")

\* The object literal of listings.push({...})  (main.js 147-155)
JsonLdRecord(item) ==
    [price |-> Or(Or(item.offersPrice, item.price), Null),
     address |-> Or(Or(item.streetAddress, item.name), Null),
     city |-> Or(item.addressLocality, Null),
     state |-> Or(item.addressRegion, Null),
     zip_code |-> Or(item.postalCode, Null),
     url |-> Or(item.url, Null),
     image_url |-> Or(item.image, Null)]

\* One linked-data script block: parse "ok" | "malformed", and the items
\* (Array.isArray(json) ? json : [json]).
\* The for loop over the items of one block, inside its try: an item that
\* is null raises on item['@type'] and ends the block, keeping what was
\* pushed before it.
RECURSIVE BlockListings(_)
BlockListings(items) ==
    IF items = <<>> THEN <<>>
    ELSE IF Head(items).isNull THEN <<>>
    ELSE IF RecognizedType(Head(items))
         THEN <<JsonLdRecord(Head(items))>> \o BlockListings(Tail(items))
         ELSE BlockListings(Tail(items))

RECURSIVE AllBlockListings(_)
AllBlockListings(blocks) ==
    IF blocks = <<>> THEN <<>>
    ELSE (IF Head(blocks).parse = "ok" THEN BlockListings(Head(blocks).items) ELSE <<>>)
         \o AllBlockListings(Tail(blocks))

\* one try around the whole loop over the blocks: a malformed block
\* discards the listings of every block
extractFromJsonLd_OneTry(page) ==
    IF \E i \in 1..Len(page.jsonLd) : page.jsonLd[i].parse = "malformed"
    THEN Null
    ELSE Arr(AllBlockListings(page.jsonLd))

\* extractFromJsonLd($): a non-empty sequence of records, or Null
\* (main.js 135-164)
extractFromJsonLd(page) ==
    LET listings == AllBlockListings(page.jsonLd)
    IN  IF Len(listings) > 0 THEN Arr(listings) ELSE Null

\* the title check without its last signature
IsBlocked_NoRobot(title) ==
    \/ Includes(title, <<"Access Denied">>)
    \/ Includes(title, <<"Captcha">>)

\* if (title.includes('Access Denied') || title.includes('Captcha') ||
\*     title.includes('Robot'))
IsBlocked(title) ==
    \/ Includes(title, <<"Access Denied">>)
    \/ Includes(title, <<"Captcha">>)
    \/ Includes(title, <<"Robot">>)

\* the test without the length: an empty array counts as a result
NonEmpty_AnyArray(l) == l.t = "arr"

\* listings && listings.length > 0
NonEmpty(l) == l.t = "arr" /\ Len(l.v) > 0

\* Strategy selection of the request handler (main.js 251-269): the
\* listings the admit loop iterates over.
SelectListings(page) ==
    LET a == extractFromNextData(page)
    IN  IF NonEmpty(a) THEN a.v
        ELSE LET b == extractFromJsonLd(page)
             IN  IF NonEmpty(b) THEN b.v ELSE <<>>

\* a field the record does not have reads as undefined
Field(rec, f) == IF f \in DOMAIN rec THEN rec[f] ELSE Undef

\* the key without its fallbacks: the url alone
ListingKey_UrlOnly(listing) == Field(listing, "url")

\* const key = listing.url || listing.full_address || listing.address
ListingKey(listing) ==
    Or(Or(Field(listing, "url"), Field(listing, "full_address")), Field(listing, "address"))

\* ------------------------------------------------------------------------
\* The pages the site can serve in the model
\* ------------------------------------------------------------------------
Home1 ==
    [EmptyHome EXCEPT
        !.formattedPrice = Str(<<"$689,000+">>),
        !.bedsFormatted = Str(<<"3", " Beds">>),
        !.bathsFormatted = Str(<<"2", " Baths">>),
        !.floorFormatted = Str(<<"2", ",", "082", " sqft">>),
        !.lotFormatted = Str(<<"0.91 acres">>),
        !.streetAddress = Str(<<"1208 State Route 31">>),
        !.city = Str(<<"Bridgeport">>),
        !.stateCode = Str(<<"NY">>),
        !.zipCode = Str(<<"13030">>),
        !.fullLocation = Str(<<"1208 State Route 31, Bridgeport, NY 13030">>),
        !.latitude = Num(<<"43.15">>),
        !.longitude = Num(<<"-75.97">>),
        !.propertyTypeValue = Str(<<"NEW CONSTRUCTION">>),
        !.brokerName = Str(<<"ESSEX HOMES">>),
        !.description = Str(<<"A home">>),
        !.heroImage = Str(<<"https://www.trulia.com", "/", "pictures", "/", "1.jpg">>),
        !.url = Str(<<"/", "p", "/", "ny", "/", "home-1">>)]

\* numeric price, values instead of formatted strings, url without a
\* leading slash
Home2 ==
    [EmptyHome EXCEPT
        !.priceNum = Num(<<"689000">>),
        !.bedsFormatted = Str(<<" Beds">>),
        !.bedsValue = Num(<<"4">>),
        !.bathsValue = Num(<<"0">>),
        !.floorValue = Num(<<"1500">>),
        !.url = Str(<<"p", "/", "ny", "/", "home-2">>)]

\* only a street line
Home3 == [EmptyHome EXCEPT !.formattedStreetLine = Str(<<"12 Main St">>)]

\* only a full location
Home4 == [EmptyHome EXCEPT !.fullLocation = Str(<<"5 Elm St, Albany, NY 12207">>)]

\* a listing whose path is the path of the second result page
Home5 == [EmptyHome EXCEPT !.url = Str(<<"/", "NY", "/", "2_p", "/">>)]

HomeNull == [EmptyHome EXCEPT !.isNull = TRUE]
HomeBadUrl == [EmptyHome EXCEPT !.url = Num(<<"7">>)]

Item1 ==
    [EmptyItem EXCEPT
        !.type = Str(<<"RealEstateListing">>),
        !.offersPrice = Num(<<"689000">>),
        !.streetAddress = Str(<<"1208 State Route 31">>),
        !.addressLocality = Str(<<"Bridgeport">>),
        !.addressRegion = Str(<<"NY">>),
        !.postalCode = Str(<<"13030">>),
        !.url = Str(<<Origin, "/", "p", "/", "ny", "/", "home-1">>),
        !.image = Arr(<<"1.jpg", "2.jpg">>)]

Item2 ==
    [EmptyItem EXCEPT
        !.type = Arr(<<"Place", "RealEstateListing">>),
        !.name = Str(<<"9 Oak Ave">>),
        !.url = Str(<<Origin, "/", "p", "/", "ny", "/", "home-3">>)]

Item3 ==
    [EmptyItem EXCEPT
        !.type = Str(<<"Product">>),
        !.price = Str(<<"$1,250,000">>),
        !.name = Str(<<"12 Main St">>)]

Item4 == [EmptyItem EXCEPT !.type = Str(<<"Organization">>), !.name = Str(<<"Trulia">>)]
Item5 == [EmptyItem EXCEPT !.type = Str(<<"RealEstateListing">>)]
ItemNull == [EmptyItem EXCEPT !.isNull = TRUE]

Block(items) == [parse |-> "ok", items |-> items]
BadBlock == [parse |-> "malformed", items |-> <<>>]

OkTitle == <<"Homes For Sale", " | ", "Trulia">>
BlockedTitles == {<<"Access Denied">>, <<"Security ", "Captcha">>, <<"Are you a ", "Robot", "?">>}
Titles == {OkTitle, <<"access denied">>} \cup BlockedTitles

Page(title, nd, ld) == [title |-> title, nextData |-> nd, jsonLd |-> ld]

OkPages ==
    { Page(OkTitle, HomesAt("props", <<Home1, Home2>>), <<>>),
      Page(OkTitle, HomesAt("pageProps", <<Home2, Home3, Home1>>), <<Block(<<Item2>>)>>),
      Page(OkTitle, HomesAt("props", <<Home5, Home4, Home3>>), <<>>),
      Page(OkTitle, HomesAt("props", <<Home5>>), <<>>),
      Page(OkTitle, HomesAt("props", <<EmptyHome, Home4>>), <<>>),
      Page(OkTitle, HomesAt("props", <<Home1, HomeNull>>), <<Block(<<Item1, Item2, ItemNull, Item3>>)>>),
      Page(OkTitle, HomesAt("props", <<HomeBadUrl>>), <<BadBlock>>),
      Page(OkTitle, HomesAt("props", <<>>), <<BadBlock, Block(<<Item4, Item3>>)>>),
      Page(OkTitle, NoHomes, <<Block(<<Item1, Item2>>)>>),
      Page(OkTitle, HomesNotArray, <<Block(<<Item1>>), BadBlock, Block(<<Item2>>)>>),
      Page(OkTitle, NoSearchData, <<Block(<<Item5>>)>>),
      Page(OkTitle, BadScript, <<Block(<<Item4>>)>>),
      Page(<<"access denied">>, NoScript, <<>>) }

BlockedPages ==
    { Page(t, HomesAt("props", <<Home1>>), <<Block(<<Item2>>)>>) : t \in BlockedTitles }

Pages == OkPages \cup BlockedPages

\* ------------------------------------------------------------------------
\* State
\* ------------------------------------------------------------------------
VARIABLES
    input,            \* the object returned by Actor.getInput()
    RESULTS_WANTED,   \* normalised results_wanted
    MAX_PAGES,        \* normalised max_pages
    initialUrl,       \* the URL handed to crawler.run
    saved,            \* let saved = 0
    seenUrls,         \* const seenUrls = new Set()
    queue,            \* pending requests of the crawler's request queue
    knownUrls,        \* unique keys the request queue has ever accepted
    inflight,         \* request handlers between fetch and completion
    detached,         \* handlers that outlived requestHandlerTimeoutSecs
    dataset,          \* records written by Dataset.pushData, in order
    handed,           \* number of listings passed to Dataset.pushData
    fetchedUrls,      \* URLs of the pages fetched so far
    failedUrls,       \* URLs given to failedRequestHandler
    status,           \* "running" | "done" | "fatal"
    reported,         \* the count logged by "Finished! Saved ..." or -1
    lastEvent         \* what the last step did (history)

vars == <<input, RESULTS_WANTED, MAX_PAGES, initialUrl, saved, seenUrls, queue,
          knownUrls, inflight, detached, dataset, handed, fetchedUrls,
          failedUrls, status, reported, lastEvent>>

config == <<input, RESULTS_WANTED, MAX_PAGES, initialUrl>>

\* CheerioCrawler options (main.js 190-194)
maxRequestRetries == 5
maxConcurrency == 2

\* no page (history fields of a step that looked at none)
NoPage == Page(<<>>, NoScript, <<>>)

NoEvent ==
    [type |-> "none", url |-> Null, pageNo |-> 0, cause |-> "",
     extracted |-> FALSE, retired |-> FALSE, requeued |-> FALSE,
     found |-> 0, admitted |-> 0, emits |-> 0, batch |-> <<>>,
     enqueueCalls |-> 0, page |-> NoPage, listings |-> <<>>]

\* const { start_url, location, listing_type, results_wanted, max_pages } = input
Input(su, loc, type, rw, mp) ==
    [start_url |-> su, location |-> loc, listing_type |-> type,
     results_wanted |-> rw, max_pages |-> mp]

\* Inputs of the runs of the model
ResultsWantedInputs == {RawNull} \cup {RawNum(k) : k \in 0..MaxResultsInput}
MaxPagesInputs == {RawNull} \cup {RawNum(k) : k \in 1..MaxPagesInput}
StartUrlInputs == {Undef, Str(<<Origin, "/", "NY", "/", "2_p", "/">>)}

\* The state when crawler.run([{ url: initialUrl, userData: { pageNo: 1 } }])
\* has added its request  (main.js 12-53, 316)
Init ==
    /\ \E rw \in ResultsWantedInputs, mp \in MaxPagesInputs, su \in StartUrlInputs :
          input = Input(su, Undef, Undef, rw, mp)
    /\ RESULTS_WANTED = NormResultsWanted(input.results_wanted)
    /\ MAX_PAGES = NormMaxPages(input.max_pages)
    /\ initialUrl = InitialUrl(input.start_url, input.location, input.listing_type)
    /\ saved = 0
    /\ seenUrls = {}
    /\ queue = {[url |-> initialUrl, pageNo |-> 1, retryCount |-> 0]}
    /\ knownUrls = {initialUrl}
    /\ inflight = {}
    /\ detached = {}
    /\ dataset = <<>>
    /\ handed = 0
    /\ fetchedUrls = {}
    /\ failedUrls = {}
    /\ status = "running"
    /\ reported = -1
    /\ lastEvent = NoEvent

\* ------------------------------------------------------------------------
\* The crawler's handling of a request whose fetch or handler failed:
\* retried while retryCount < maxRequestRetries, then handed to
\* failedRequestHandler (main.js 192, 307-309)
\* ------------------------------------------------------------------------
CanRetry(req) == req.retryCount < maxRequestRetries

\* a failed request reclaimed without counting the retry
QueueAfterError_Uncounted(req) == queue \cup {req}

QueueAfterError(req) ==
    IF CanRetry(req)
    THEN queue \cup {[req EXCEPT !.retryCount = req.retryCount + 1]}
    ELSE queue

FailedAfterError(req) ==
    IF CanRetry(req) THEN failedUrls ELSE failedUrls \cup {req.url}

ErrorEvent(req, cause) ==
    [NoEvent EXCEPT !.type = "error", !.cause = cause, !.url = req.url,
                    !.pageNo = req.pageNo, !.requeued = CanRetry(req)]

\* request.userData?.pageNo || 1
PageNoOf(req) == IF req.pageNo = 0 THEN 1 ELSE req.pageNo

\* ------------------------------------------------------------------------
\* The crawler takes a request from the queue and fetches it
\* ------------------------------------------------------------------------
NewHandler(req, page) ==
    [req |-> req, pc |-> "start", page |-> page, found |-> 0,
     newListings |-> <<>>, emits |-> 0, nextUrl |-> Null]

FetchFrom(pages) ==
    /\ status = "running"
    /\ Cardinality(inflight) < maxConcurrency
    /\ \E req \in queue, page \in pages :
        /\ queue' = queue \ {req}
        /\ inflight' = inflight \cup {NewHandler(req, page)}
        /\ fetchedUrls' = fetchedUrls \cup {req.url}
        /\ lastEvent' = [NoEvent EXCEPT !.type = "fetch", !.url = req.url,
                                        !.pageNo = req.pageNo]
    /\ UNCHANGED <<config, detached, saved, seenUrls, knownUrls, dataset, handed,
                   failedUrls, status, reported>>

Fetch == FetchFrom(Pages)

\* network or HTTP failure of the fetch
FetchFails ==
    /\ status = "running"
    /\ Cardinality(inflight) < maxConcurrency
    /\ \E req \in queue :
        /\ queue' = QueueAfterError(req) \ {req}
        /\ failedUrls' = FailedAfterError(req)
        /\ fetchedUrls' = fetchedUrls \cup {req.url}
        /\ lastEvent' = ErrorEvent(req, "fetch")
    /\ UNCHANGED <<config, detached, saved, seenUrls, knownUrls, inflight, dataset,
                   handed, status, reported>>

\* ------------------------------------------------------------------------
\* requestHandler (main.js 239-305), one action per stretch between awaits
\* ------------------------------------------------------------------------
\* the quota test off by one: one listing too many is admitted
QuotaReached_OffByOne(sv, rw) == sv > rw

\* if (saved >= RESULTS_WANTED) break
QuotaReached(sv, rw) == sv >= rw

\* the admit test without the lookup in seenUrls
Admits_NoLookup(key, seen) == Truthy(key)

\* if (key && !seenUrls.has(key))
Admits(key, seen) == Truthy(key) /\ key \notin seen

\* The for loop of main.js 272-282
RECURSIVE AdmitLoop(_, _, _, _, _)
AdmitLoop(listings, sv, seen, new, rw) ==
    IF listings = <<>> \/ QuotaReached(sv, rw)
    THEN [saved |-> sv, seenUrls |-> seen, newListings |-> new]
    ELSE LET listing == Head(listings)
             key == ListingKey(listing)
         IN  IF Admits(key, seen)
             THEN AdmitLoop(Tail(listings), sv + 1, seen \cup {key},
                            Append(new, listing), rw)
             ELSE AdmitLoop(Tail(listings), sv, seen, new, rw)

\* pushData called without the length guard
CallsPushData_Always(newListings) == TRUE

\* if (newListings.length > 0) await Dataset.pushData(newListings)
CallsPushData(newListings) == Len(newListings) > 0

\* pagination that ignores the quota
ShouldPaginate_NoQuota(sv, rw, pageNo, maxPages) == pageNo < maxPages

\* the page limit off by one: the page with index MAX_PAGES still paginates
ShouldPaginate_OffByOne(sv, rw, pageNo, maxPages) == sv < rw /\ pageNo <= maxPages

\* if (saved < RESULTS_WANTED && pageNo < MAX_PAGES)
ShouldPaginate(sv, rw, pageNo, maxPages) == sv < rw /\ pageNo < maxPages

\* the successor's page index advanced by two
NextPageNo_Skip(pageNo) == pageNo + 2

\* userData: { pageNo: pageNo + 1 }
NextPageNo(pageNo) == pageNo + 1

\* the enqueue test without the lookup in seenUrls
ShouldEnqueue_NoLookup(nextUrl, seen) == Truthy(nextUrl)

\* if (nextUrl && !seenUrls.has(nextUrl))
ShouldEnqueue(nextUrl, seen) == Truthy(nextUrl) /\ nextUrl \notin seen

\* The handler throws: the crawler reclaims or abandons the request
HandlerError(h, cause, retired) ==
    /\ inflight' = inflight \ {h}
    /\ queue' = QueueAfterError(h.req)
    /\ failedUrls' = FailedAfterError(h.req)
    /\ lastEvent' = [ErrorEvent(h.req, cause) EXCEPT !.retired = retired,
                                                     !.emits = h.emits]

\* main.js 240-249: the title check; a blocked page retires the session
\* and throws before any extraction
HandlerBlocked ==
    /\ status = "running"
    /\ \E h \in inflight :
        /\ h.pc = "start"
        /\ IsBlocked(h.page.title)
        /\ HandlerError(h, "blocked", TRUE)
    /\ UNCHANGED <<config, detached, saved, seenUrls, knownUrls, dataset, handed,
                   fetchedUrls, status, reported>>

\* main.js 251-287: extraction, then (when listings were found) the admit
\* loop, up to the next await
HandlerExtract ==
    /\ status = "running"
    /\ \E h \in inflight :
        /\ h.pc = "start"
        /\ ~IsBlocked(h.page.title)
        /\ \E listings \in {SelectListings(h.page)} :
           \E r \in {AdmitLoop(listings, saved, seenUrls, <<>>, RESULTS_WANTED)} :
           LET pc2 == IF listings = <<>> THEN "setValue"
                      ELSE IF CallsPushData(r.newListings) THEN "pushData"
                      ELSE "delay"
               calls == IF pc2 = "pushData" THEN 1 ELSE 0
           IN  /\ saved' = r.saved
               /\ seenUrls' = r.seenUrls
               /\ handed' = handed + (IF pc2 = "pushData" THEN Len(r.newListings) ELSE 0)
               /\ inflight' = (inflight \ {h}) \cup
                      {[h EXCEPT !.pc = pc2, !.page = NoPage,
                                 !.found = Len(listings),
                                 !.newListings = r.newListings,
                                 !.emits = calls]}
               /\ lastEvent' = [NoEvent EXCEPT !.type = "extract", !.url = h.req.url,
                                   !.pageNo = PageNoOf(h.req), !.extracted = TRUE,
                                   !.found = Len(listings),
                                   !.admitted = Len(r.newListings),
                                   !.emits = calls, !.batch = r.newListings,
                                   !.page = h.page, !.listings = listings]
    /\ UNCHANGED <<config, detached, queue, knownUrls, dataset, fetchedUrls, failedUrls,
                   status, reported>>

\* main.js 266-287: await Actor.setValue(`debug-page-${pageNo}`, ...)
\* resolves; the admit loop runs over the empty list
SetValueDone ==
    /\ status = "running"
    /\ \E h \in inflight :
        /\ h.pc = "setValue"
        /\ \E r \in {AdmitLoop(<<>>, saved, seenUrls, <<>>, RESULTS_WANTED)} :
           LET pc2 == IF CallsPushData(r.newListings) THEN "pushData" ELSE "delay"
               calls == IF pc2 = "pushData" THEN 1 ELSE 0
           IN  /\ saved' = r.saved
               /\ seenUrls' = r.seenUrls
               /\ handed' = handed + (IF pc2 = "pushData" THEN Len(r.newListings) ELSE 0)
               /\ inflight' = (inflight \ {h}) \cup
                      {[h EXCEPT !.pc = pc2, !.newListings = r.newListings,
                                 !.emits = calls]}
               /\ lastEvent' = [NoEvent EXCEPT !.type = "setValue", !.url = h.req.url,
                                   !.pageNo = PageNoOf(h.req), !.extracted = TRUE,
                                   !.emits = calls]
    /\ UNCHANGED <<config, detached, queue, knownUrls, dataset, fetchedUrls,
                   failedUrls, status, reported>>

\* await Actor.setValue(...) rejects
SetValueThrows ==
    /\ status = "running"
    /\ \E h \in inflight :
        /\ h.pc = "setValue"
        /\ HandlerError(h, "setValue", FALSE)
    /\ UNCHANGED <<config, detached, saved, seenUrls, knownUrls, dataset, handed,
                   fetchedUrls, status, reported>>

\* main.js 285-291: await Dataset.pushData(newListings) resolves
PushDataDone ==
    /\ status = "running"
    /\ \E h \in inflight :
        /\ h.pc = "pushData"
        /\ dataset' = dataset \o h.newListings
        /\ inflight' = (inflight \ {h}) \cup {[h EXCEPT !.pc = "delay"]}
        /\ lastEvent' = [NoEvent EXCEPT !.type = "pushData", !.url = h.req.url,
                            !.pageNo = PageNoOf(h.req), !.batch = h.newListings,
                            !.emits = h.emits]
    /\ UNCHANGED <<config, detached, saved, seenUrls, queue, knownUrls, handed,
                   fetchedUrls, failedUrls, status, reported>>

\* await Dataset.pushData(newListings) rejects
PushDataThrows ==
    /\ status = "running"
    /\ \E h \in inflight :
        /\ h.pc = "pushData"
        /\ HandlerError(h, "pushData", FALSE)
    /\ UNCHANGED <<config, detached, saved, seenUrls, knownUrls, dataset, handed,
                   fetchedUrls, status, reported>>

CompletedEvent(h, calls) ==
    [NoEvent EXCEPT !.type = "completed", !.url = h.req.url,
                    !.pageNo = PageNoOf(h.req), !.extracted = TRUE,
                    !.found = h.found, !.admitted = Len(h.newListings),
                    !.emits = h.emits, !.batch = h.newListings,
                    !.enqueueCalls = calls]

\* main.js 290-304: the delay is over; pagination up to await enqueueLinks,
\* or the handler returns
Paginate ==
    /\ status = "running"
    /\ \E h \in inflight :
        /\ h.pc = "delay"
        /\ LET pageNo == PageNoOf(h.req)
               nextUrl == buildNextPageUrl(h.req.url, pageNo)
           IN  IF ShouldPaginate(saved, RESULTS_WANTED, pageNo, MAX_PAGES)
                  /\ ShouldEnqueue(nextUrl, seenUrls)
               THEN /\ seenUrls' = seenUrls \cup {nextUrl}
                    /\ inflight' = (inflight \ {h}) \cup
                           {[h EXCEPT !.pc = "enqueueLinks", !.nextUrl = nextUrl]}
                    /\ lastEvent' = [NoEvent EXCEPT !.type = "paginate",
                                        !.url = nextUrl, !.pageNo = pageNo]
               ELSE /\ seenUrls' = seenUrls
                    /\ inflight' = inflight \ {h}
                    /\ lastEvent' = CompletedEvent(h, 0)
    /\ UNCHANGED <<config, detached, saved, queue, knownUrls, dataset, handed,
                   fetchedUrls, failedUrls, status, reported>>

\* main.js 298-304: await enqueueLinks({ urls: [nextUrl], userData: { pageNo:
\* pageNo + 1 } }) resolves; the request queue drops a URL it already knows
EnqueueLinksDone ==
    /\ status = "running"
    /\ \E h \in inflight :
        /\ h.pc = "enqueueLinks"
        /\ queue' = IF h.nextUrl \in knownUrls THEN queue
                    ELSE queue \cup {[url |-> h.nextUrl,
                                      pageNo |-> NextPageNo(PageNoOf(h.req)),
                                      retryCount |-> 0]}
        /\ knownUrls' = knownUrls \cup {h.nextUrl}
        /\ inflight' = inflight \ {h}
        /\ lastEvent' = CompletedEvent(h, 1)
    /\ UNCHANGED <<config, detached, saved, seenUrls, dataset, handed, fetchedUrls,
                   failedUrls, status, reported>>

\* await enqueueLinks(...) rejects
EnqueueLinksThrows ==
    /\ status = "running"
    /\ \E h \in inflight :
        /\ h.pc = "enqueueLinks"
        /\ HandlerError(h, "enqueueLinks", FALSE)
    /\ UNCHANGED <<config, detached, saved, seenUrls, knownUrls, dataset, handed,
                   fetchedUrls, status, reported>>

\* ------------------------------------------------------------------------
\* End of the run (main.js 316-327)
\* ------------------------------------------------------------------------
\* crawler.run resolves when no request is pending or being handled;
\* log.info(`Finished! Saved ${saved} listings.`)
Finish ==
    /\ status = "running"
    /\ queue = {}
    /\ inflight = {}
    /\ status' = "done"
    /\ reported' = saved
    /\ lastEvent' = [NoEvent EXCEPT !.type = "finish"]
    /\ UNCHANGED <<config, detached, saved, seenUrls, queue, knownUrls, inflight, dataset,
                   handed, fetchedUrls, failedUrls>>

\* await crawler.run(...) rejects (a failure of the crawler itself, not of
\* a request): the finally block exits the actor, line 318 is skipped
RunRejects ==
    /\ status = "running"
    /\ status' = "fatal"
    /\ queue' = {}
    /\ inflight' = {}
    /\ lastEvent' = [NoEvent EXCEPT !.type = "fatal"]
    /\ UNCHANGED <<config, detached, saved, seenUrls, knownUrls, dataset, handed,
                   fetchedUrls, failedUrls, reported>>

Next ==
    \/ Fetch
    \/ FetchFails
    \/ HandlerBlocked
    \/ HandlerExtract
    \/ SetValueDone
    \/ SetValueThrows
    \/ PushDataDone
    \/ PushDataThrows
    \/ Paginate
    \/ EnqueueLinksDone
    \/ EnqueueLinksThrows
    \/ Finish
    \/ RunRejects

Spec == Init /\ [][Next]_vars

\* The event loop keeps running whatever is runnable
LiveSpec == Spec /\ WF_vars(Next)

TypeOK ==
    /\ saved \in Nat
    /\ status \in {"running", "done", "fatal"}
    /\ Cardinality(inflight) <= maxConcurrency

\* ------------------------------------------------------------------------
\* Handlers that outlive requestHandlerTimeoutSecs (main.js 194).  The
\* crawler gives up waiting for a handler that is suspended in an await
\* for longer than the timeout and treats the request as failed (a retry
\* while retries remain); the async function itself is not cancelled and
\* goes on when its await settles, beside the handler of the retry.
\* ------------------------------------------------------------------------
requestHandlerTimeoutSecs == 60

\* handlers of a run of the model that may outlive their timeout
MaxDetached == 1

\* the pages and the input of the runs with timeouts
TimeoutPages ==
    {Page(OkTitle, HomesAt("props", <<Home1, Home2>>), <<>>),
     Page(OkTitle, HomesAt("pageProps", <<Home2, Home3, Home1, Home4>>),
          <<Block(<<Item2>>)>>),
     Page(OkTitle, NoScript, <<>>)}

TimeoutInit ==
    /\ Init
    /\ input.start_url = Undef
    /\ input.results_wanted = RawNum(MaxResultsInput)
    /\ input.max_pages = RawNum(MaxPagesInput)

Awaits == {"setValue", "pushData", "delay", "enqueueLinks"}

\* a handler the crawler no longer waits for has returned or thrown
Ended(h) == [NewHandler(h.req, NoPage) EXCEPT !.pc = "ended"]

HandlerTimesOut ==
    /\ status = "running"
    /\ Cardinality(detached) < MaxDetached
    /\ \E h \in inflight :
        /\ h.pc \in Awaits
        /\ detached' = detached \cup {h}
        /\ HandlerError(h, "timeout", FALSE)
    /\ UNCHANGED <<config, saved, seenUrls, knownUrls, dataset, handed,
                   fetchedUrls, status, reported>>

\* main.js 266-287 in a handler the crawler no longer waits for
DetachedSetValueDone ==
    /\ status = "running"
    /\ \E h \in detached :
        /\ h.pc = "setValue"
        /\ \E r \in {AdmitLoop(<<>>, saved, seenUrls, <<>>, RESULTS_WANTED)} :
           LET pc2 == IF CallsPushData(r.newListings) THEN "pushData" ELSE "delay"
               calls == IF pc2 = "pushData" THEN 1 ELSE 0
           IN  /\ saved' = r.saved
               /\ seenUrls' = r.seenUrls
               /\ handed' = handed + (IF pc2 = "pushData" THEN Len(r.newListings) ELSE 0)
               /\ detached' = (detached \ {h}) \cup
                      {[h EXCEPT !.pc = pc2, !.newListings = r.newListings,
                                 !.emits = calls]}
               /\ lastEvent' = [NoEvent EXCEPT !.type = "setValue", !.url = h.req.url,
                                   !.pageNo = PageNoOf(h.req), !.extracted = TRUE,
                                   !.emits = calls]
    /\ UNCHANGED <<config, queue, knownUrls, inflight, dataset, fetchedUrls,
                   failedUrls, status, reported>>

\* main.js 285-291 in a handler the crawler no longer waits for
DetachedPushDataDone ==
    /\ status = "running"
    /\ \E h \in detached :
        /\ h.pc = "pushData"
        /\ dataset' = dataset \o h.newListings
        /\ detached' = (detached \ {h}) \cup {[h EXCEPT !.pc = "delay"]}
        /\ lastEvent' = [NoEvent EXCEPT !.type = "pushData", !.url = h.req.url,
                            !.pageNo = PageNoOf(h.req), !.batch = h.newListings,
                            !.emits = h.emits]
    /\ UNCHANGED <<config, saved, seenUrls, queue, knownUrls, inflight, handed,
                   fetchedUrls, failedUrls, status, reported>>

\* main.js 290-304 in a handler the crawler no longer waits for
DetachedPaginate ==
    /\ status = "running"
    /\ \E h \in detached :
        /\ h.pc = "delay"
        /\ LET pageNo == PageNoOf(h.req)
               nextUrl == buildNextPageUrl(h.req.url, pageNo)
           IN  IF ShouldPaginate(saved, RESULTS_WANTED, pageNo, MAX_PAGES)
                  /\ ShouldEnqueue(nextUrl, seenUrls)
               THEN /\ seenUrls' = seenUrls \cup {nextUrl}
                    /\ detached' = (detached \ {h}) \cup
                           {[h EXCEPT !.pc = "enqueueLinks", !.nextUrl = nextUrl]}
                    /\ lastEvent' = [NoEvent EXCEPT !.type = "paginate",
                                        !.url = nextUrl, !.pageNo = pageNo]
               ELSE /\ seenUrls' = seenUrls
                    /\ detached' = (detached \ {h}) \cup {Ended(h)}
                    /\ lastEvent' = CompletedEvent(h, 0)
    /\ UNCHANGED <<config, saved, queue, knownUrls, inflight, dataset, handed,
                   fetchedUrls, failedUrls, status, reported>>

\* main.js 298-304 in a handler the crawler no longer waits for
DetachedEnqueueLinksDone ==
    /\ status = "running"
    /\ \E h \in detached :
        /\ h.pc = "enqueueLinks"
        /\ queue' = IF h.nextUrl \in knownUrls THEN queue
                    ELSE queue \cup {[url |-> h.nextUrl,
                                      pageNo |-> NextPageNo(PageNoOf(h.req)),
                                      retryCount |-> 0]}
        /\ knownUrls' = knownUrls \cup {h.nextUrl}
        /\ detached' = (detached \ {h}) \cup {Ended(h)}
        /\ lastEvent' = CompletedEvent(h, 1)
    /\ UNCHANGED <<config, saved, seenUrls, inflight, dataset, handed,
                   fetchedUrls, failedUrls, status, reported>>

\* an await of a handler the crawler no longer waits for rejects: the
\* function ends, nobody handles the rejection
DetachedThrows ==
    /\ status = "running"
    /\ \E h \in detached :
        /\ h.pc \in Awaits \ {"delay"}
        /\ detached' = (detached \ {h}) \cup {Ended(h)}
        /\ lastEvent' = [NoEvent EXCEPT !.type = "detachedError", !.cause = h.pc,
                            !.url = h.req.url, !.pageNo = PageNoOf(h.req),
                            !.emits = h.emits]
    /\ UNCHANGED <<config, saved, seenUrls, queue, knownUrls, inflight, dataset,
                   handed, fetchedUrls, failedUrls, status, reported>>

TimeoutNext ==
    \/ FetchFrom(TimeoutPages)
    \/ HandlerExtract
    \/ SetValueDone
    \/ PushDataDone
    \/ Paginate
    \/ EnqueueLinksDone
    \/ Finish
    \/ PushDataThrows
    \/ RunRejects
    \/ HandlerTimesOut
    \/ DetachedSetValueDone
    \/ DetachedPushDataDone
    \/ DetachedPaginate
    \/ DetachedEnqueueLinksDone
    \/ DetachedThrows

\* The crawl with handlers that may exceed the timeout.  Of the failures
\* of Spec these runs keep the rejected pushData and the failure of the
\* crawler; their pages (TimeoutPages) are not blocked.
TimeoutSpec == TimeoutInit /\ [][TimeoutNext]_vars

\* ------------------------------------------------------------------------
\* The start-up of main and the pagination planner taken alone, over
\* inputs the crawl above does not draw
\* ------------------------------------------------------------------------
StartUrlValues ==
    {Undef, Null, Str(<<>>),
     Str(<<Origin, "/", "NY", "/", "2_p", "/">>),
     Str(<<Origin, "/", "for_rent", "/", "CA", "/">>)}
LocationValues ==
    {Undef, Null, Str(<<"NY">>), Str(<<"ny">>), Str(<<"los", " ", "angeles">>)}
ListingTypeValues ==
    {Undef, Null, Str(<<"buy">>), Str(<<"rent">>), Str(<<"Rent">>), Str(<<"sold">>)}
RawNumberValues == {RawUndef, RawNaN, RawNum(MaxPagesInput)}

\* loc.toUpperCase() on a location that is not a string (the default
\* replaces undefined only) is a TypeError; buildStartUrl is called only
\* when start_url is falsy
StartUrlThrows(in) ==
    /\ ~Truthy(in.start_url)
    /\ in.location.t \notin {"undef", "str"}

\* URLs and page indexes handed to the planner
PlannerUrls ==
    {Str(<<Origin>>),
     Str(<<Origin, "/", "NY", "/">>),
     Str(<<Origin, "/", "NY">>),
     Str(<<Origin, "/", "NY", "/", PageSeg(2), "/">>),
     Str(<<Origin, "/", "NY", "/", PageSeg(MaxPageSeg)>>),
     Str(<<Origin, "/", "for_rent", "/", "NY", "/", PageSeg(3), "/", "?", "sort=new">>),
     Str(<<Origin, "/", "NY", "/", "?", "sort=new">>),
     Str(<<Origin, "/", "NY", "/", PageSeg(2), "/", "map", "/">>),
     Str(<<Origin, "/", "NY", "/", "2_px", "/">>),
     Str(<<"/", "NY", "/">>),
     Str(<<>>),
     Undef}
PlannerPages == 1..(MaxPagesInput + 1)

\* href of the page's a[rel="next"] element, Undef when there is none
\* (README.md 367-371)
NextLinks ==
    {Undef,
     Str(<<"/", "NY", "/", PageSeg(4), "/">>),
     Str(<<Origin, "/", "NY", "/", PageSeg(2), "/", "?", "sort=new">>)}

\* new URL(nextLink, currentUrl).href for the links of the model: a link
\* starting with the origin is absolute, one starting with "/" replaces
\* path and query of the current URL
ResolveUrl(link, base) ==
    IF Len(link.v) >= 1 /\ link.v[1] = Origin THEN link
    ELSE Str(<<Origin>> \o link.v)

PlanEvent(currentUrl, currentPage, nextLink, nextUrl) ==
    [type |-> "plan", url |-> currentUrl, pageNo |-> currentPage,
     nextLink |-> nextLink, nextUrl |-> nextUrl]

crawl == <<saved, seenUrls, queue, knownUrls, inflight, detached, dataset,
           handed, fetchedUrls, failedUrls, reported>>

\* Actor.getInput() has returned
FunctionInit ==
    /\ \E su \in StartUrlValues, loc \in LocationValues, type \in ListingTypeValues,
          n \in RawNumberValues :
          input = Input(su, loc, type, n, n)
    /\ RESULTS_WANTED = 0
    /\ MAX_PAGES = 0
    /\ initialUrl = Undef
    /\ saved = 0
    /\ seenUrls = {}
    /\ queue = {}
    /\ knownUrls = {}
    /\ inflight = {}
    /\ detached = {}
    /\ dataset = <<>>
    /\ handed = 0
    /\ fetchedUrls = {}
    /\ failedUrls = {}
    /\ status = "init"
    /\ reported = -1
    /\ lastEvent = NoEvent

\* main.js 12-46: the input is destructured with its defaults and
\* normalised, and initialUrl is computed
ReadInput ==
    /\ status = "init"
    /\ ~StartUrlThrows(input)
    /\ RESULTS_WANTED' = NormResultsWanted(input.results_wanted)
    /\ MAX_PAGES' = NormMaxPages(input.max_pages)
    /\ initialUrl' = InitialUrl(input.start_url, input.location, input.listing_type)
    /\ status' = "running"
    /\ lastEvent' = [NoEvent EXCEPT !.type = "input"]
    /\ UNCHANGED <<input, crawl>>

\* main.js 38, 319-327: buildStartUrl throws, main rejects
ReadInputThrows ==
    /\ status = "init"
    /\ StartUrlThrows(input)
    /\ status' = "fatal"
    /\ lastEvent' = [NoEvent EXCEPT !.type = "fatal"]
    /\ UNCHANGED <<input, RESULTS_WANTED, MAX_PAGES, initialUrl, crawl>>

\* main.js 295: const nextUrl = buildNextPageUrl(request.url, pageNo), on
\* a page that has the next link `nextLink'
PlanNextPage ==
    /\ status = "running"
    /\ \E currentUrl \in PlannerUrls, currentPage \in PlannerPages,
          nextLink \in NextLinks :
          lastEvent' = PlanEvent(currentUrl, currentPage, nextLink,
                                 buildNextPageUrl(currentUrl, currentPage))
    /\ UNCHANGED <<config, crawl, status>>

FunctionNext ==
    \/ ReadInput
    \/ ReadInputThrows
    \/ PlanNextPage

FunctionSpec == FunctionInit /\ [][FunctionNext]_vars

\* ------------------------------------------------------------------------
\* Properties
\* ------------------------------------------------------------------------
IsPrefix(a, b) == Len(a) <= Len(b) /\ SubSeq(b, 1, Len(a)) = a

\* C1: in every reachable state saved never exceeds RESULTS_WANTED, and
\* neither the number of listings handed to Dataset.pushData over the run
\* nor the number of records in the dataset exceeds RESULTS_WANTED.
C1_QuotaNeverExceeded ==
    /\ saved <= RESULTS_WANTED
    /\ handed <= RESULTS_WANTED
    /\ Len(dataset) <= RESULTS_WANTED

\* C1 witness: the quota was reached exactly, over two pages one of which
\* was retried, and everything admitted was written.
C1_Witness ==
    /\ RESULTS_WANTED >= 2
    /\ saved = RESULTS_WANTED
    /\ Len(dataset) = RESULTS_WANTED
    /\ Cardinality(fetchedUrls) >= 2
    /\ lastEvent.type = "pushData"
    /\ \E h \in inflight : h.req.retryCount > 0

\* C2: the pages fetched are at most MAX_PAGES (a retried page counts
\* once), every request carries a page index between 1 and MAX_PAGES, and
\* a successor is enqueued only from a page whose index is below MAX_PAGES.
C2_PagesBounded ==
    /\ Cardinality(fetchedUrls) <= MAX_PAGES
    /\ \A r \in queue : 1 <= r.pageNo /\ r.pageNo <= MAX_PAGES
    /\ \A h \in inflight : 1 <= PageNoOf(h.req) /\ PageNoOf(h.req) <= MAX_PAGES
    /\ \A h \in inflight : h.pc = "enqueueLinks" => PageNoOf(h.req) < MAX_PAGES
    /\ (lastEvent.type = "completed" /\ lastEvent.enqueueCalls > 0)
           => lastEvent.pageNo < MAX_PAGES

\* C2 witness: the last allowed page is being handled on a retry, after
\* MAX_PAGES >= 2 different pages were fetched.
C2_Witness ==
    /\ MAX_PAGES >= 2
    /\ Cardinality(fetchedUrls) = MAX_PAGES
    /\ \E h \in inflight : /\ PageNoOf(h.req) = MAX_PAGES
                           /\ h.req.retryCount > 0
                           /\ h.pc = "delay"

\* C3: no identity key (url, else full_address, else address) occurs twice
\* among the records of the dataset, and every record of the dataset has a
\* non-null key.
C3_NoDuplicateKey ==
    \A i, j \in 1..Len(dataset) :
        /\ Truthy(ListingKey(dataset[i]))
        /\ (i # j => ListingKey(dataset[i]) # ListingKey(dataset[j]))

\* C3 witness: a later page offered a listing whose key is the key of a
\* record already in the dataset, and the handler did not admit it.
C3_Witness ==
    /\ lastEvent.type = "extract"
    /\ lastEvent.pageNo >= 2
    /\ Len(dataset) > 0
    /\ \E i \in 1..Len(lastEvent.listings), k \in 1..Len(dataset) :
           /\ ListingKey(lastEvent.listings[i]) = ListingKey(dataset[k])
           /\ \A n \in 1..Len(lastEvent.batch) :
                  ListingKey(lastEvent.batch[n]) # ListingKey(lastEvent.listings[i])

\* C4: with the page-counter planner, every run eventually has no queued
\* and no in-flight page, and stays so, with at most MAX_PAGES pages
\* fetched, whether or not saved reaches RESULTS_WANTED.
C4_PaginationTerminates ==
    <>[](/\ queue = {}
         /\ inflight = {}
         /\ Cardinality(fetchedUrls) <= MAX_PAGES)

\* C4 witness: the crawl ended after MAX_PAGES >= 2 pages that yielded no
\* listing at all, far from the quota.
C4_Witness ==
    /\ status = "done"
    /\ queue = {}
    /\ inflight = {}
    /\ MAX_PAGES >= 2
    /\ Cardinality(fetchedUrls) = MAX_PAGES
    /\ saved = 0
    /\ seenUrls = fetchedUrls \ {initialUrl}
    /\ failedUrls = {}

EmbeddedGivesListings(page) ==
    /\ page.nextData.script = "json"
    /\ page.nextData.searchData # "none"
    /\ page.nextData.homesKind = "array"
    /\ Len(page.nextData.homes) > 0
    /\ \A i \in 1..Len(page.nextData.homes) : ~HomeThrows(page.nextData.homes[i])

ScenarioPage == Page(OkTitle, NoHomes, <<Block(<<Item1, Item2>>)>>)

C6_WitnessEmbedded ==
    /\ lastEvent.type = "extract"
    /\ EmbeddedGivesListings(lastEvent.page)
    /\ AllBlockListings(lastEvent.page.jsonLd) # <<>>
    /\ Len(lastEvent.listings) = Len(lastEvent.page.nextData.homes)

IsSuffix(a, b) ==
    Len(a) <= Len(b) /\ SubSeq(b, Len(b) - Len(a) + 1, Len(b)) = a

\* C7 as stated: every successfully handled page has called pushData
\* exactly once, an empty batch included.
C7_EmitOncePerPage ==
    lastEvent.type = "completed" => lastEvent.emits = 1

\* C7 amended: a successfully handled page has called pushData exactly once
\* when it admitted at least one listing, with the batch of the listings
\* admitted on that page, and not at all when it admitted nothing.
C7_EmitOnlyNonEmptyBatch ==
    /\ lastEvent.type = "completed" =>
           /\ lastEvent.emits = (IF lastEvent.admitted > 0 THEN 1 ELSE 0)
           /\ Len(lastEvent.batch) = lastEvent.admitted
           /\ IsSuffix(lastEvent.batch, dataset)
    /\ lastEvent.type = "pushData" =>
           /\ lastEvent.emits = 1
           /\ Len(lastEvent.batch) > 0
           /\ IsSuffix(lastEvent.batch, dataset)
    /\ \A h \in inflight :
           h.pc = "pushData" => h.emits = 1 /\ Len(h.newListings) > 0

\* C7 witness: a page that offered listings but admitted none (all were
\* seen before) completed without any call to pushData.
C7_Witness ==
    /\ lastEvent.type = "completed"
    /\ lastEvent.found > 0
    /\ lastEvent.admitted = 0
    /\ lastEvent.emits = 0
    /\ saved < RESULTS_WANTED
    /\ Len(dataset) > 0

\* The 13 fields of the documented output record (README, Output Data)
CanonicalFields ==
    {"price", "beds", "baths", "sqft", "lot_size", "address", "city", "state",
     "zip_code", "property_type", "listing_by", "image_url", "url"}

\* C8: every record of the dataset has exactly the 13 canonical fields, and
\* each field is a string or null.
C8_CanonicalRecords ==
    \A i \in 1..Len(dataset) :
        /\ DOMAIN dataset[i] = CanonicalFields
        /\ \A f \in DOMAIN dataset[i] : dataset[i][f].t \in {"str", "null"}

AllThreeNull(rec) ==
    /\ Field(rec, "price") \in {Null, Undef}
    /\ Field(rec, "address") \in {Null, Undef}
    /\ Field(rec, "url") \in {Null, Undef}

\* C9: no record whose price, address and url are all null is admitted or
\* written to the dataset.
C9_NoiseDropped ==
    /\ \A i \in 1..Len(dataset) : ~AllThreeNull(dataset[i])
    /\ \A h \in inflight : \A i \in 1..Len(h.newListings) :
           ~AllThreeNull(h.newListings[i])

\* C10 as stated: whenever the run has ended, successfully or fatally, the
\* final saved count has been reported.
C10_AlwaysReports ==
    status # "running" => reported = saved

\* C10 amended: the run always terminates; a run that ends successfully has
\* reported the final saved count; the dataset only grows by appending; a
\* request is retried at most maxRequestRetries times, and the step that
\* abandons it leaves the run going and the dataset untouched.
C10_TerminatesKeepingResults ==
    /\ <>(status # "running")
    /\ [](status = "done" => reported = saved /\ queue = {} /\ inflight = {})
    /\ [](\A r \in queue : r.retryCount <= maxRequestRetries)
    /\ [][IsPrefix(dataset, dataset')]_vars
    /\ [][failedUrls' # failedUrls =>
            /\ status' = "running"
            /\ dataset' = dataset
            /\ lastEvent'.type = "error"
            /\ ~lastEvent'.requeued
            /\ failedUrls' = failedUrls \cup {lastEvent'.url}
            /\ \A r \in queue' : r.url # lastEvent'.url
         ]_vars

\* C10 witness: the run ended successfully with the second page abandoned
\* after its retries and the records of the first page still in the
\* dataset.
C10_Witness ==
    /\ status = "done"
    /\ reported = saved
    /\ failedUrls # {}
    /\ initialUrl \notin failedUrls
    /\ Len(dataset) > 0
    /\ Len(dataset) = saved


\* C11: an exception of Dataset.pushData while a page's batch is being
\* emitted is fatal: the request is not reclaimed for a retry, no page is
\* pending or handled any more and the run has ended with a failure.
C11_PersistenceFailureIsFatal ==
    (lastEvent.type = "error" /\ lastEvent.cause = "pushData") =>
        /\ status = "fatal"
        /\ ~lastEvent.requeued
        /\ queue = {}
        /\ inflight = {}


\* the <LOCATION> of the start URL templates for the locations of the
\* model: upper case, white space as an underscore, "NY" when absent
ExpectedLocation(loc) ==
    CASE loc = Undef -> "NY"
      [] loc = Str(<<"NY">>) -> "NY"
      [] loc = Str(<<"ny">>) -> "NY"
      [] loc = Str(<<"los", " ", "angeles">>) -> "LOS_ANGELES"

\* C12: once the input is read, initialUrl is a function of the input: a
\* given (non-empty) start_url unchanged, whatever location and
\* listing_type are; else <origin>/for_rent/<LOCATION>/ exactly when
\* listing_type is "rent" and <origin>/<LOCATION>/ for every other or
\* absent listing_type, with <LOCATION> taken from location or "NY".
C12_StartUrlFromInput ==
    status = "running" =>
        IF Truthy(input.start_url)
        THEN initialUrl = input.start_url
        ELSE IF input.listing_type = Str(<<"rent">>)
        THEN initialUrl = Str(<<Origin, "/", "for_rent", "/",
                                ExpectedLocation(input.location), "/">>)
        ELSE initialUrl = Str(<<Origin, "/",
                                ExpectedLocation(input.location), "/">>)

\* C12 witness: no start_url, a lower-case location of two words and the
\* rent listing type gave the rent template with LOS_ANGELES.
C12_Witness ==
    /\ status = "running"
    /\ lastEvent.type = "input"
    /\ ~Truthy(input.start_url)
    /\ input.location = Str(<<"los", " ", "angeles">>)
    /\ input.listing_type = Str(<<"rent">>)
    /\ initialUrl = Str(<<Origin, "/", "for_rent", "/", "LOS_ANGELES", "/">>)


\* the identity keys of the listings of a sequence
KeysOf(seq) == {ListingKey(seq[i]) : i \in 1..Len(seq)}

\* seenUrls as it was before the page of the last "extract" step
SeenBefore == seenUrls \ KeysOf(lastEvent.batch)

\* positions of the admissible listings of a page: a non-null key that
\* was not seen before the page nor earlier on the page
AdmissibleAt(listings, seen) ==
    {i \in 1..Len(listings) :
        /\ Truthy(ListingKey(listings[i]))
        /\ ListingKey(listings[i]) \notin seen
        /\ \A j \in 1..(i-1) : ListingKey(listings[j]) # ListingKey(listings[i])}

\* the listings at the k smallest positions of I, in page order
FirstOf(listings, I, k) ==
    [n \in 1..k |->
        listings[CHOOSE i \in I : Cardinality({j \in I : j < i}) = n - 1]]

\* C13: when a page holds more admissible listings than the remaining
\* quota, the batch admitted is exactly the first remaining-quota many
\* admissible listings in page order and saved reaches RESULTS_WANTED;
\* and no handler enqueues a successor once the quota is reached, whatever
\* its page index.
C13_QuotaCutsPage ==
    /\ lastEvent.type = "extract" =>
          LET remaining == RESULTS_WANTED - (saved - lastEvent.admitted)
              adm == AdmissibleAt(lastEvent.listings, SeenBefore)
          IN  Cardinality(adm) > remaining =>
                 /\ lastEvent.admitted = remaining
                 /\ lastEvent.batch = FirstOf(lastEvent.listings, adm, remaining)
                 /\ saved = RESULTS_WANTED
    /\ \A h \in inflight : h.pc = "enqueueLinks" => saved < RESULTS_WANTED
    /\ (lastEvent.type = "completed" /\ saved >= RESULTS_WANTED) =>
          lastEvent.enqueueCalls = 0

\* C13 witness: with RESULTS_WANTED 2 and MAX_PAGES 2 the first page held
\* three admissible listings; its first two were admitted and written and
\* the page completed without enqueueing page 2.
C13_Witness ==
    /\ RESULTS_WANTED = 2
    /\ MAX_PAGES = 2
    /\ lastEvent.type = "completed"
    /\ lastEvent.pageNo = 1
    /\ lastEvent.found = 3
    /\ lastEvent.admitted = 2
    /\ lastEvent.enqueueCalls = 0
    /\ dataset = lastEvent.batch
    /\ Cardinality(KeysOf(dataset)) = 2
    /\ saved = 2
    /\ queue = {}
    /\ knownUrls = {initialUrl}


Min(a, b) == IF a <= b THEN a ELSE b

\* C14: the step that handles a page's listings adds to saved the number
\* of the page's listings with a non-null key not seen before (each key
\* once), capped at the remaining quota; no other step changes saved; and
\* a step that adds to the request queue adds one request, as the last
\* step of its handler, so a page gets at most one successor.
C14_SavedPerPage ==
    [][/\ lastEvent'.type = "extract" =>
             saved' = saved +
                 Min(Cardinality(AdmissibleAt(lastEvent'.listings, seenUrls)),
                     Max(0, RESULTS_WANTED - saved))
       /\ lastEvent'.type # "extract" => saved' = saved
       /\ knownUrls' # knownUrls =>
             /\ Cardinality(knownUrls' \ knownUrls) = 1
             /\ Cardinality(queue' \ queue) = 1
             /\ lastEvent'.type = "completed"
             /\ lastEvent'.enqueueCalls = 1
             /\ Cardinality(inflight') < Cardinality(inflight)]_vars

\* C14 witness: the first page gave one listing and enqueued page 2; page
\* 2 held three listings of which one repeated the key of page 1: two were
\* admitted, one rejected, saved went from 1 to 3.
C14_Witness ==
    /\ lastEvent.type = "extract"
    /\ lastEvent.pageNo = 2
    /\ Cardinality(knownUrls) = 2
    /\ Len(dataset) = 1
    /\ lastEvent.found = 3
    /\ KeysOf(dataset) \subseteq KeysOf(lastEvent.listings)
    /\ lastEvent.admitted = 2
    /\ saved = 3


\* C15: when a handler reaches its pagination step it hands a successor to
\* enqueueLinks if and only if saved < RESULTS_WANTED, pageNo < MAX_PAGES
\* and the planner's URL is a URL that is not in seenUrls; the URL handed
\* over is recorded in seenUrls in the same step, otherwise seenUrls is
\* left alone; and the request that enters the queue has that URL and the
\* page index pageNo + 1.
C15_EnqueueCondition ==
    [][\A h \in inflight :
        /\ (h.pc = "delay" /\ h \notin inflight' /\ status' = "running") =>
              LET pageNo == PageNoOf(h.req)
                  nextUrl == buildNextPageUrl(h.req.url, pageNo)
                  cond == /\ saved < RESULTS_WANTED
                          /\ pageNo < MAX_PAGES
                          /\ nextUrl # Null
                          /\ nextUrl \notin seenUrls
                  enqueues == \E g \in inflight' :
                                 /\ g.req = h.req
                                 /\ g.pc = "enqueueLinks"
                                 /\ g.nextUrl = nextUrl
              IN  /\ cond <=> enqueues
                  /\ cond => seenUrls' = seenUrls \cup {nextUrl}
                  /\ ~cond => /\ seenUrls' = seenUrls
                              /\ queue' = queue
                              /\ lastEvent'.type = "completed"
                              /\ lastEvent'.enqueueCalls = 0
        /\ (h.pc = "enqueueLinks" /\ lastEvent'.type = "completed") =>
              /\ queue' \ queue \subseteq
                    {[url |-> h.nextUrl, pageNo |-> PageNoOf(h.req) + 1,
                      retryCount |-> 0]}
              /\ h.nextUrl \in seenUrls
              /\ h.nextUrl \in knownUrls']_vars

\* C15 witness: page 1 admitted a listing without reaching the quota and
\* completed by enqueueing the request of page 2, whose URL is in seenUrls.
C15_Witness ==
    /\ lastEvent.type = "completed"
    /\ lastEvent.enqueueCalls = 1
    /\ lastEvent.pageNo = 1
    /\ saved > 0
    /\ saved < RESULTS_WANTED
    /\ \E r \in queue : /\ r.pageNo = 2
                        /\ r.url \in seenUrls
                        /\ r.url = buildNextPageUrl(initialUrl, 1)


\* C16: a handler that found no listing or admitted none and reaches the
\* end of its delay with saved < RESULTS_WANTED and pageNo < MAX_PAGES
\* hands its successor to enqueueLinks.
C16_EmptyPagePaginates ==
    [][\A h \in inflight :
        (/\ h.pc = "delay"
         /\ Len(h.newListings) = 0
         /\ h \notin inflight'
         /\ status' = "running"
         /\ saved < RESULTS_WANTED
         /\ PageNoOf(h.req) < MAX_PAGES) =>
            \E g \in inflight' : g.req = h.req /\ g.pc = "enqueueLinks"]_vars


\* C17: on a page that has an explicit next-page link the planner returns
\* that link resolved against the current page URL, and the page-counter
\* URL only on a page without such a link.
C17_NextLinkPreferred ==
    lastEvent.type = "plan" =>
        IF Truthy(lastEvent.nextLink)
        THEN lastEvent.nextUrl = ResolveUrl(lastEvent.nextLink, lastEvent.url)
        ELSE lastEvent.nextUrl = buildNextPageUrl(lastEvent.url, lastEvent.pageNo)


\* what precedes the new page-index segment in the next-page URL of the
\* URLs of the model: origin and path up to, not including, a trailing
\* page-index segment, closed by a slash
ExpectedPrefix(u) ==
    CASE u = Str(<<Origin>>) -> <<Origin, "/">>
      [] u \in {Str(<<Origin, "/", "NY", "/">>),
                Str(<<Origin, "/", "NY">>),
                Str(<<Origin, "/", "NY", "/", PageSeg(2), "/">>),
                Str(<<Origin, "/", "NY", "/", PageSeg(MaxPageSeg)>>),
                Str(<<Origin, "/", "NY", "/", "?", "sort=new">>)}
            -> <<Origin, "/", "NY", "/">>
      [] u = Str(<<Origin, "/", "for_rent", "/", "NY", "/", PageSeg(3), "/", "?", "sort=new">>)
            -> <<Origin, "/", "for_rent", "/", "NY", "/">>
      [] u = Str(<<Origin, "/", "NY", "/", PageSeg(2), "/", "map", "/">>)
            -> <<Origin, "/", "NY", "/", PageSeg(2), "/", "map", "/">>
      [] u = Str(<<Origin, "/", "NY", "/", "2_px", "/">>)
            -> <<Origin, "/", "NY", "/", "2_px", "/">>

\* the query string of the URLs of the model
ExpectedQuery(u) ==
    IF u \in {Str(<<Origin, "/", "NY", "/", "?", "sort=new">>),
              Str(<<Origin, "/", "for_rent", "/", "NY", "/", PageSeg(3), "/", "?", "sort=new">>)}
    THEN <<"?", "sort=new">>
    ELSE <<>>

\* the strings of the model that new URL() rejects
Unparseable == {Str(<<"/", "NY", "/">>), Str(<<>>), Undef}

WithoutMalformed(page) ==
    [page EXCEPT !.jsonLd = SelectSeq(page.jsonLd, LAMBDA b : b.parse = "ok")]

\* a page with no usable data: no embedded script that parses to a
\* non-empty homes array, and no linked-data block that parses and holds
\* an item of a recognised type
NoUsableData(page) ==
    /\ \/ page.nextData.script # "json"
       \/ page.nextData.searchData = "none"
       \/ page.nextData.homesKind # "array"
       \/ page.nextData.homes = <<>>
    /\ \A i \in 1..Len(page.jsonLd) :
          \/ page.jsonLd[i].parse = "malformed"
          \/ \A k \in 1..Len(page.jsonLd[i].items) :
                \/ page.jsonLd[i].items[k].isNull
                \/ ~RecognizedType(page.jsonLd[i].items[k])

\* the page with a homes value that is no array and a malformed
\* linked-data block between two good ones
MalformedBetween ==
    Page(OkTitle, HomesNotArray, <<Block(<<Item1>>), BadBlock, Block(<<Item2>>)>>)

\* C19: no handler fails in extraction: every failure of a request comes
\* from the fetch, the block check or an awaited collaborator; for every
\* page both strategies return null or an array; the listings of a page
\* are those of the page without its malformed linked-data blocks (the
\* good blocks around a malformed one keep their listings); and a page
\* with no usable data gives the empty sequence, its handler going on.
C19_ExtractionNeverFails ==
    /\ lastEvent.type = "error" =>
          lastEvent.cause \in {"fetch", "blocked", "setValue", "pushData",
                               "enqueueLinks"}
    /\ \A h \in inflight : h.pc = "start" =>
          /\ extractFromNextData(h.page).t \in {"null", "arr"}
          /\ extractFromJsonLd(h.page).t \in {"null", "arr"}
    /\ lastEvent.type = "extract" =>
          /\ lastEvent.listings = SelectListings(WithoutMalformed(lastEvent.page))
          /\ lastEvent.page = MalformedBetween =>
                lastEvent.listings = <<JsonLdRecord(Item1), JsonLdRecord(Item2)>>
          /\ NoUsableData(lastEvent.page) =>
                /\ lastEvent.listings = <<>>
                /\ \E h \in inflight : h.req.url = lastEvent.url /\ h.pc = "setValue"

\* C19 witness: a page whose embedded homes value is no array and whose
\* second linked-data block is malformed was handled, giving the listings
\* of the first and the third block.
C19_Witness ==
    /\ lastEvent.type = "extract"
    /\ lastEvent.page = MalformedBetween
    /\ lastEvent.found = 2
    /\ \E h \in inflight : h.pc \in {"pushData", "delay"}


\* a listing without identity: no url, no full address, no address
HasNoKey(listing) ==
    /\ ~Truthy(Field(listing, "url"))
    /\ ~Truthy(Field(listing, "full_address"))
    /\ ~Truthy(Field(listing, "address"))

\* C20: the admit loop of a page changes saved and seenUrls only by its
\* acceptances: a listing without identity or with a key already in
\* seenUrls is in no batch and adds nothing; the batch holds listings with
\* pairwise different keys none of which was in seenUrls, seenUrls grows
\* by exactly those keys and saved by exactly their number; while the
\* quota is not reached every listing with an unseen key is accepted; and
\* in no step of a run does seenUrls lose an element or saved decrease.
C20_AdmitFrame ==
    [][/\ seenUrls \subseteq seenUrls'
       /\ saved <= saved'
       /\ lastEvent'.type = "extract" =>
             LET ls == lastEvent'.listings
                 b == lastEvent'.batch
             IN  /\ \A i \in 1..Len(ls) :
                       (HasNoKey(ls[i]) \/ ListingKey(ls[i]) \in seenUrls) =>
                           \A k \in 1..Len(b) : b[k] # ls[i]
                 /\ \A k \in 1..Len(b) :
                       /\ ~HasNoKey(b[k])
                       /\ ListingKey(b[k]) \notin seenUrls
                       /\ \A j \in 1..(k-1) : ListingKey(b[j]) # ListingKey(b[k])
                 /\ seenUrls' = seenUrls \cup KeysOf(b)
                 /\ Cardinality(seenUrls') = Cardinality(seenUrls) + Len(b)
                 /\ saved' = saved + Len(b)
                 /\ saved' < RESULTS_WANTED =>
                       \A i \in 1..Len(ls) :
                           ~HasNoKey(ls[i]) => ListingKey(ls[i]) \in seenUrls'
                                               /\ Truthy(ListingKey(ls[i]))]_vars

\* C20 witness: a page with a listing without identity followed by one
\* with an unseen key was handled: the first was rejected, the second
\* accepted, saved = 1 and seenUrls holds that one key.
C20_Witness ==
    /\ lastEvent.type = "extract"
    /\ lastEvent.found = 2
    /\ HasNoKey(lastEvent.listings[1])
    /\ ~HasNoKey(lastEvent.listings[2])
    /\ lastEvent.batch = <<lastEvent.listings[2]>>
    /\ saved = 1
    /\ seenUrls = {ListingKey(lastEvent.listings[2])}
    /\ RESULTS_WANTED > 1


\* ------------------------------------------------------------------------
\* Handlers in flight together
\* ------------------------------------------------------------------------
\* the handlers that are running: those the crawler waits for and those
\* that outlived their timeout and have not ended
Running == inflight \cup {h \in detached : h.pc # "ended"}

\* the keys of a sequence of listings are pairwise different
DistinctKeys(seq) ==
    \A i, j \in 1..Len(seq) : ListingKey(seq[i]) = ListingKey(seq[j]) => i = j

\* C21: with several handlers in flight, the admit step of a page is one
\* step that no other handler interleaves with: it raises saved by exactly
\* the number of listings it admits and stays within RESULTS_WANTED, the
\* keys it admits are pairwise different, were in seenUrls for none of
\* them before the step and are all in seenUrls after it; no other step
\* changes saved and no step removes a key from seenUrls.  So no key is
\* admitted by two handlers and saved never exceeds RESULTS_WANTED.
C21_AdmitIsAtomic ==
    [][/\ lastEvent'.type = "extract" =>
             /\ saved' = saved + Len(lastEvent'.batch)
             /\ DistinctKeys(lastEvent'.batch)
             /\ KeysOf(lastEvent'.batch) \cap seenUrls = {}
             /\ seenUrls' = seenUrls \cup KeysOf(lastEvent'.batch)
       /\ lastEvent'.type # "extract" => saved' = saved
       /\ seenUrls \subseteq seenUrls'
       /\ saved' <= RESULTS_WANTED]_vars

\* C21 witness: a handler that outlived its timeout still holds the batch
\* it admitted, and the handler of the retry of the same request has just
\* made its admit step over a page with listings, admitting none of the
\* keys of that batch.
C21_Witness ==
    /\ lastEvent.type = "extract"
    /\ lastEvent.found > 0
    /\ \E z \in detached, h \in inflight :
          /\ z.pc = "pushData"
          /\ z.req.url = h.req.url
          /\ h.req.retryCount = z.req.retryCount + 1
          /\ h.pc # "start"
          /\ h.found > 0
          /\ KeysOf(z.newListings) \cap KeysOf(h.newListings) = {}
          /\ KeysOf(z.newListings) \cap KeysOf(lastEvent.listings) # {}


\* C22 as claimed (and, a fortiori, without what it says of the handler
\* that reached the quota itself): once saved = RESULTS_WANTED no listing
\* is admitted, no admit step made from then on leads to an emit, and no
\* page enters the request queue.
C22_QuotaAbsorbing ==
    [][saved = RESULTS_WANTED =>
          /\ saved' = saved
          /\ lastEvent'.type \in {"extract", "setValue"} => lastEvent'.emits = 0
          /\ knownUrls' = knownUrls]_vars

\* C22 (amended): once saved = RESULTS_WANTED it stays there and seenUrls
\* no longer changes; every admit step made from then on admits nothing
\* and calls pushData for nothing, and every pagination test made from
\* then on ends its handler without a call of enqueueLinks.  What still
\* happens is the completion of calls begun before: a handler suspended in
\* await pushData writes the batch it admitted, and a handler suspended in
\* await enqueueLinks adds the successor it had recorded.  No handler is
\* cancelled: a handler leaves only by returning, by throwing or with the
\* crawler.
C22_QuotaStopsNewWork ==
    [][saved = RESULTS_WANTED =>
          /\ saved' = saved
          /\ seenUrls' = seenUrls
          /\ lastEvent'.type \in {"extract", "setValue"} =>
                /\ lastEvent'.admitted = 0
                /\ lastEvent'.emits = 0
                /\ handed' = handed
          /\ lastEvent'.type # "paginate"
          /\ \A h \in Running :
                (h.pc = "delay" /\ h \notin Running') =>
                    \/ lastEvent'.type = "completed" /\ lastEvent'.enqueueCalls = 0
                    \/ lastEvent'.type \in {"error", "fatal"}
          /\ dataset' # dataset =>
                \E h \in Running : /\ h.pc = "pushData"
                                   /\ dataset' = dataset \o h.newListings
          /\ knownUrls' # knownUrls =>
                \E h \in Running : /\ h.pc = "enqueueLinks"
                                   /\ knownUrls' = knownUrls \cup {h.nextUrl}
          /\ Cardinality(Running') < Cardinality(Running) =>
                lastEvent'.type \in {"completed", "error", "detachedError", "fatal"}]_vars

\* C22 witness: with the quota reached, a page whose index is below
\* MAX_PAGES and that holds a listing with a key not yet seen was handled
\* to its end: nothing admitted, nothing emitted, nothing enqueued (the
\* retry of a page whose batch reached the quota and whose pushData was
\* rejected).
C22_Witness ==
    /\ saved = RESULTS_WANTED
    /\ RESULTS_WANTED > 0
    /\ lastEvent.type = "completed"
    /\ lastEvent.pageNo < MAX_PAGES
    /\ lastEvent.found > 0
    /\ lastEvent.admitted = 0
    /\ lastEvent.emits = 0
    /\ lastEvent.enqueueCalls = 0
    /\ Len(dataset) < saved


\* ------------------------------------------------------------------------
\* One set for listing keys and page URLs
\* ------------------------------------------------------------------------
\* C23: listing keys and page URLs do not interfere.  A first attempt of
\* a page that passes the pagination test with a URL from the planner and
\* ends without calling enqueueLinks skipped a URL that was enqueued as a
\* page before; and a listing with a key is found in seenUrls by the admit
\* loop only when a listing with that key was admitted before (with every
\* admitted listing written, one of the dataset).
C23_KeysAndPagesApart ==
    [][/\ \A h \in inflight :
            LET pageNo == PageNoOf(h.req)
                nextUrl == buildNextPageUrl(h.req.url, pageNo)
            IN  (/\ h.pc = "delay"
                 /\ h.req.retryCount = 0
                 /\ h \notin inflight'
                 /\ lastEvent'.type = "completed"
                 /\ ShouldPaginate(saved, RESULTS_WANTED, pageNo, MAX_PAGES)
                 /\ Truthy(nextUrl))
                => nextUrl \in knownUrls
       /\ (lastEvent'.type = "extract" /\ saved = Len(dataset)) =>
            \A i \in 1..Len(lastEvent'.listings) :
                LET key == ListingKey(lastEvent'.listings[i])
                IN  (Truthy(key) /\ key \in seenUrls) => key \in KeysOf(dataset)]_vars


\* ------------------------------------------------------------------------
\* saved, seenUrls and the dataset
\* ------------------------------------------------------------------------
\* the URLs the pagination step can have put into seenUrls
PlannedUrls ==
    {buildNextPageUrl(u, p) : u \in fetchedUrls, p \in 1..MAX_PAGES}

\* C24: whenever no handler is between its admit loop and the end of its
\* pushData call, saved is the number of records in the dataset and every
\* listing key in seenUrls is the key of a record in the dataset, also
\* after a handler failed past its admit loop and its page was retried.
C24_SavedMatchesDataset ==
    (\A h \in inflight : h.pc # "pushData") =>
        /\ saved = Len(dataset)
        /\ \A k \in seenUrls \ PlannedUrls : k \in KeysOf(dataset)


\* C25: a URL handed to enqueueLinks was not handed to it before and is
\* not the URL of a page already visited or queued, the start URL
\* included: a planner that returns the current or an earlier page URL
\* ends the pagination.
C25_NoPageEnqueuedAgain ==
    [][lastEvent'.type = "paginate" =>
          /\ lastEvent'.url \notin seenUrls
          /\ lastEvent'.url \notin knownUrls
          /\ lastEvent'.url \notin fetchedUrls
          /\ lastEvent'.url # initialUrl]_vars


\* ------------------------------------------------------------------------
\* The chain of pages
\* ------------------------------------------------------------------------
\* the requests that are queued or being handled for the crawler
Pending == queue \cup {h.req : h \in inflight}

\* C26 as claimed: at most one page is queued or in flight, and two
\* handlers never run together.
C26_SingleChain ==
    /\ Cardinality(queue) + Cardinality(inflight) <= 1
    /\ Cardinality(Running) <= 1

\* C26 (amended): the run starts with one request and a handler enqueues
\* at most one successor, as its last step, so while no handler has
\* outlived its timeout at most one page is queued or in flight and it is
\* the page with the highest index so far: pages are handled in the order
\* 1, 2, 3, ...  Every handler that outlives its timeout leaves its request
\* to a retry and goes on beside it, which adds at most one to the pages
\* queued or in flight and to the handlers running together.
C26_ChainPerTimeout ==
    /\ Cardinality(queue) + Cardinality(inflight) <= 1 + Cardinality(detached)
    /\ Cardinality(Pending) <= 1 + Cardinality(detached)
    /\ Cardinality(Running) <= 1 + Cardinality(detached)
    /\ detached = {} =>
          \A r \in Pending : PageNoOf(r) = Cardinality(knownUrls)
    /\ \A r \in Pending : PageNoOf(r) <= Cardinality(knownUrls)

\* C26 witness: the handler of page 1 outlived its timeout and enqueued
\* page 2 while the retry of page 1 is being handled: two pages are
\* pending, and page 2 may be handled before page 1 is.
C26_Witness ==
    /\ Cardinality(detached) = 1
    /\ \E h \in inflight, r \in queue :
          /\ PageNoOf(h.req) = 1
          /\ h.req.retryCount = 1
          /\ h.pc # "start"
          /\ PageNoOf(r) = 2
    /\ lastEvent.type = "completed"
    /\ lastEvent.enqueueCalls = 1

=============================================================================
